---- MODULE Spec2Model ----
(***************************************************************************)
(* Model of PurpleSec/Mapper (src/mapper.go): the Map type, a registry of  *)
(* named prepared statements guarded by a sync.RWMutex.                    *)
(*                                                                         *)
(* Every goroutine calling into the Map is a thread with a program         *)
(* counter.  A method is split into steps at the points where another      *)
(* goroutine can observe or change the shared state: every access to the   *)
(* field m.entries (the pointer), to the map it points to, to the lock,    *)
(* and every call into database/sql.  The map objects live in a small heap *)
(* (maps) because AddContext and ExtendContext replace m.entries.          *)
(***************************************************************************)
EXTENDS Integers, Sequences, FiniteSets, TLC

\* ------------------------------------------------------------------ bounds
NumThreads == 2
MaxCalls == 2

\* ------------------------------------------------------------- value sets
Threads == 1..NumThreads
Names == {"a", "b", "c"}
NoName == "-"

\* Statement texts.  The driver accepts the texts in ValidSQL and rejects
\* every other text.
ValidSQL == {"ok1", "ok2"}
InvalidSQL == {"bad"}

\* A value stored in a Go map[string]*sql.Stmt under a key: Absent (no such
\* key), NilStmt (key present, nil pointer) or a handle 1..MaxStmts.
Absent == 0 - 1
NilStmt == 0
MaxStmts == 2 + 2 * MaxCalls
Stmts == 1..MaxStmts
MapIds == Threads
NilMap == 0
EmptyMap == [n \in Names |-> Absent]

\* Inputs of Extend: nil, or a map from names to statement texts.
NilData == [n \in Names |-> "nil"]
NoData == [n \in Names |-> ""]
DataABC == [n \in Names |-> IF n = "a" THEN "ok1" ELSE IF n = "b" THEN "bad" ELSE "ok2"]
ExtendInputs == {NilData, DataABC}
DataKeys(d) == IF d = NilData THEN {} ELSE {n \in Names : d[n] # ""}

\* Inputs of Batch: lists of raw statements.
BatchInputs == { <<>>, <<"ok1", "ok2">>, <<"ok1", "bad", "ok2">> }

\* Inputs of Add.
AddNames == {"a", "b"}
AddQueries == {"ok1", "bad"}

\* Names looked up by Remove, Contains, Get, Exec, Query and QueryRow.
ReadNames == {"a"}

\* --------------------------------------------------------------- errors
\* An error is a pair <<kind, subject>>; errval{e, s} of mapper.go:38-41
\* with the name or statement its message quotes.
NoErr == <<"nil", "">>
ErrInvalidDB == <<"InvalidConnection", "">>
ErrDuplicate(n) == <<"DuplicateName", n>>
ErrNotFound(n) == <<"NotFound", n>>
ErrPrepare(n) == <<"PrepareFailed", n>>
ErrBatch(q) == <<"BatchStatementFailed", q>>
ErrClose(n) == <<"CloseFailed", n>>
ErrCanceled == <<"Canceled", "">>
ErrStmt == <<"StmtError", "">>
ErrDBClose == <<"ConnCloseError", "">>

VARIABLES
    Database,   \* m.Database # nil
    dbClosed,   \* the *sql.DB has been closed
    entries,    \* m.entries: NilMap or the id of a map object
    maps,       \* the map objects: maps[id][name]
    stmts,      \* the *sql.Stmt objects ever prepared
    nStmts,     \* number of handles prepared so far
    writer,     \* m.lock: the thread holding the exclusive lock, or 0
    readers,    \* m.lock: the threads holding the shared lock
    thr,        \* per thread: program counter, arguments and locals of its call
    last,       \* the call that returned last: its arguments and results
    calls       \* number of calls started so far

vars == <<Database, dbClosed, entries, maps, stmts, nStmts, writer, readers, thr, last, calls>>

shared == <<Database, dbClosed, entries, maps, stmts, nStmts, writer, readers>>

\* ------------------------------------------------------ helper operators
\* m.entries[name] on the map m.entries points to now (a nil map has no key).
Lookup(n) == IF entries = NilMap THEN Absent ELSE maps[entries][n]

\* len(m.entries): the number of keys, nil-valued keys included.
LenEntries == IF entries = NilMap THEN 0
              ELSE Cardinality({n \in Names : maps[entries][n] # Absent})

\* Map.Len
MapLen == IF entries = NilMap THEN 0 ELSE LenEntries

\* What Map.Contains returns when it runs alone.
Contains(n) == IF LenEntries = 0 THEN FALSE
               ELSE Lookup(n) # Absent /\ Lookup(n) # NilStmt

Idle(t) == thr[t].pc = "idle"
Quiet(t) == \A u \in Threads \ {t} : thr[u].pc = "idle"

NewStmt == [name |-> NoName, open |-> FALSE, closes |-> 0]

IdleRec ==
    [pc |-> "idle", op |-> "none", name |-> NoName, query |-> "",
     data |-> NoData, queries |-> <<>>, rem |-> {}, rng |-> NilMap,
     k |-> NoName, i |-> 0, s |-> NilStmt, ok |-> FALSE, err |-> NoErr,
     rbool |-> FALSE, rnum |-> 0, cancelled |-> FALSE, tried |-> <<>>,
     execd |-> <<>>, added |-> {}, invoked |-> NilStmt, solo |-> FALSE,
     len0 |-> 0, val0 |-> Absent]

\* What a call leaves when it returns: the call, its arguments and its
\* results.  The locals of the call are gone.
Ret(r) ==
    [IdleRec EXCEPT !.pc = "ret", !.op = r.op, !.name = r.name, !.data = r.data,
                    !.queries = r.queries, !.err = r.err, !.rbool = r.rbool,
                    !.rnum = r.rnum, !.execd = r.execd, !.tried = r.tried,
                    !.added = r.added]

\* Thread t's record becomes rec; when rec is at its return, the call's
\* results are published in last and the thread is idle again.
Set(t, rec) ==
    IF rec.pc = "ret"
    THEN /\ thr' = [thr EXCEPT ![t] = IdleRec]
         /\ last' = Ret(rec)
    ELSE /\ thr' = [thr EXCEPT ![t] = rec]
         /\ UNCHANGED last

\* Bookkeeping for the properties of a call that runs alone: solo says that
\* no other call has been in progress since this one started, and then len0
\* and val0 are Len() and m.entries[name] as they were at its start.
NotAlone(r) == [r EXCEPT !.solo = FALSE, !.len0 = 0, !.val0 = Absent]

\* A call by thread t starts with record rec (a call that returns at once
\* has rec at its return).  Every call already in progress is no longer
\* running alone.
Begin(t, rec) ==
    /\ Idle(t)
    /\ calls < MaxCalls
    /\ calls' = calls + 1
    /\ IF rec.pc = "ret"
       THEN /\ thr' = [u \in Threads |-> NotAlone(thr[u])]
            /\ last' = Ret(rec)
       ELSE /\ thr' = [u \in Threads |->
                        IF u = t
                        THEN IF Quiet(t)
                             THEN [rec EXCEPT !.solo = TRUE, !.len0 = MapLen,
                                              !.val0 = IF rec.name \in Names
                                                      THEN Lookup(rec.name) ELSE Absent]
                             ELSE rec
                        ELSE NotAlone(thr[u])]
            /\ UNCHANGED last

CanLock == writer = 0 /\ readers = {}
CanRLock == writer = 0

\* The registry after Extend({"a": ok1, "c": ok2}) by thread 1 on a new Map:
\* thread 1 made the map, and handles 1 and 2 are stored under "a" and "c".
Populated == [n \in Names |-> IF n = "a" THEN 1 ELSE IF n = "c" THEN 2 ELSE Absent]
PopulatedStmts ==
    [h \in Stmts |-> IF h = 1 THEN [name |-> "a", open |-> TRUE, closes |-> 0]
                     ELSE IF h = 2 THEN [name |-> "c", open |-> TRUE, closes |-> 0]
                     ELSE NewStmt]

\* A new Map, &Map{Database: db} or &Map{}, on which nothing has run yet; or
\* a Map with a connection on which "a" and "c" were registered before.
Init ==
    /\ Database \in BOOLEAN
    /\ dbClosed = FALSE
    /\ \E populated \in BOOLEAN :
         /\ populated => Database
         /\ entries = IF populated THEN 1 ELSE NilMap
         /\ maps = [m \in MapIds |-> IF populated /\ m = 1 THEN Populated ELSE EmptyMap]
         /\ stmts = IF populated THEN PopulatedStmts ELSE [h \in Stmts |-> NewStmt]
         /\ nStmts = IF populated THEN 2 ELSE 0
    /\ writer = 0
    /\ readers = {}
    /\ thr = [t \in Threads |-> IdleRec]
    /\ last = IdleRec
    /\ calls = 0

\* sql.DB.PrepareContext: succeeds on a valid text while the connection is
\* open and the context is not cancelled.
PrepareOK(q, cancelled) == q \in ValidSQL /\ ~dbClosed /\ ~cancelled

\* sql.DB.ExecContext on a raw statement.
ExecOK(q, cancelled) == q \in ValidSQL /\ ~dbClosed /\ ~cancelled

\* Registered with the nil test inverted ("ok && s == nil").
RegisteredInverted(v) == v = NilStmt

\* The test "ok && s != nil" of mapper.go:160 and 254 on the looked-up
\* value v: the name already has a statement.
Registered(v) == v # Absent /\ v # NilStmt

\* ------------------------------------------------------------ AddContext
\* mapper.go:152-158: the nil-connection check and the unlocked test
\* m.entries == nil.
AddStart(t, n, q) ==
    /\ Begin(t, [IdleRec EXCEPT !.op = "Add", !.name = n, !.query = q,
                                !.pc = IF ~Database THEN "ret"
                                       ELSE IF entries = NilMap THEN "make"
                                       ELSE "add_lock",
                                !.err = IF ~Database THEN ErrInvalidDB ELSE NoErr])
    /\ UNCHANGED shared

\* mapper.go:157 and 238: m.entries = make(...), written without the lock.
MakeEntries(t) ==
    /\ thr[t].pc = "make"
    /\ entries' = t
    /\ maps' = [maps EXCEPT ![t] = EmptyMap]
    /\ Set(t, [thr[t] EXCEPT !.pc = IF thr[t].op = "Add" THEN "add_lock" ELSE "ext_lock"])
    /\ UNCHANGED <<Database, dbClosed, stmts, nStmts, writer, readers, calls>>

\* mapper.go:159-163: Lock, the duplicate check, and the early return.
AddCheck(t) ==
    /\ thr[t].pc = "add_lock"
    /\ CanLock
    /\ LET v == Lookup(thr[t].name) IN
       IF Registered(v)
       THEN /\ Set(t, [thr[t] EXCEPT !.pc = "ret", !.err = ErrDuplicate(thr[t].name)])
            /\ UNCHANGED writer
       ELSE /\ Set(t, [thr[t] EXCEPT !.pc = "add_prep"])
            /\ writer' = t
    /\ UNCHANGED <<Database, dbClosed, entries, maps, stmts, nStmts, readers, calls>>

\* mapper.go:164-171: PrepareContext, the insert on success, Unlock, return.
AddPrepare(t) ==
    /\ thr[t].pc = "add_prep"
    /\ writer = t
    /\ IF PrepareOK(thr[t].query, thr[t].cancelled)
       THEN /\ nStmts' = nStmts + 1
            /\ stmts' = [stmts EXCEPT ![nStmts + 1] =
                            [name |-> thr[t].name, open |-> TRUE, closes |-> 0]]
            /\ maps' = [maps EXCEPT ![entries][thr[t].name] = nStmts + 1]
            /\ Set(t, [thr[t] EXCEPT !.pc = "ret", !.s = nStmts + 1, !.err = NoErr,
                                     !.added = {thr[t].name},
                                     !.tried = <<thr[t].name>>])
       ELSE /\ Set(t, [thr[t] EXCEPT !.pc = "ret", !.err = ErrPrepare(thr[t].name),
                                     !.tried = <<thr[t].name>>])
            /\ UNCHANGED <<nStmts, stmts, maps>>
    /\ writer' = 0
    /\ UNCHANGED <<Database, dbClosed, entries, readers, calls>>

\* --------------------------------------------------------- ExtendContext
\* mapper.go:230-239: the nil-data and nil-connection checks and the
\* unlocked test m.entries == nil.
ExtendStart(t, d) ==
    /\ Begin(t, [IdleRec EXCEPT !.op = "Extend", !.data = d,
                                !.pc = IF d = NilData \/ ~Database THEN "ret"
                                       ELSE IF entries = NilMap THEN "make"
                                       ELSE "ext_lock",
                                !.err = IF d # NilData /\ ~Database
                                        THEN ErrInvalidDB ELSE NoErr])
    /\ UNCHANGED shared

\* mapper.go:244: Lock; the range over data starts.
ExtendLock(t) ==
    /\ thr[t].pc = "ext_lock"
    /\ CanLock
    /\ writer' = t
    /\ Set(t, [thr[t] EXCEPT !.pc = "ext_iter", !.rem = DataKeys(thr[t].data)])
    /\ UNCHANGED <<Database, dbClosed, entries, maps, stmts, nStmts, readers, calls>>

\* ExtendCheck without the test of the context at the head of the loop.
ExtendCheckNoCancel(t, k) ==
    IF thr[t].err # NoErr
    THEN [thr[t] EXCEPT !.pc = "ret"]
    ELSE IF Registered(Lookup(k))
    THEN [thr[t] EXCEPT !.pc = "ret", !.err = ErrDuplicate(k)]
    ELSE [thr[t] EXCEPT !.pc = "ext_prep", !.k = k]

\* What one turn of the loop of mapper.go:245-257 does with key k before the
\* prepare: the cancellation check, then the duplicate check.
ExtendCheck(t, k) ==
    IF thr[t].cancelled
    THEN [thr[t] EXCEPT !.pc = "ret", !.err = ErrCanceled]
    ELSE IF thr[t].err # NoErr
    THEN [thr[t] EXCEPT !.pc = "ret"]
    ELSE IF Registered(Lookup(k))
    THEN [thr[t] EXCEPT !.pc = "ret", !.err = ErrDuplicate(k)]
    ELSE [thr[t] EXCEPT !.pc = "ext_prep", !.k = k]

\* mapper.go:245-257 and 264-265: the loop head.  The range ends, or picks
\* any key not yet visited (Go's map iteration order is unspecified); a
\* break unlocks and returns the error.
ExtendIter(t) ==
    /\ thr[t].pc = "ext_iter"
    /\ writer = t
    /\ IF thr[t].rem = {}
       THEN /\ Set(t, [thr[t] EXCEPT !.pc = "ret"])
            /\ writer' = 0
       ELSE \E k \in thr[t].rem :
              /\ Set(t, ExtendCheck(t, k))
              /\ writer' = IF ExtendCheck(t, k).pc = "ret" THEN 0 ELSE t
    /\ UNCHANGED <<Database, dbClosed, entries, maps, stmts, nStmts, readers, calls>>

\* ExtendFail without the break: the error is kept but the loop goes on.
ExtendFailNoBreak(r, k) ==
    [r EXCEPT !.pc = "ext_iter", !.err = ErrPrepare(k), !.rem = @ \ {k},
              !.tried = Append(@, k)]

\* ExtendFail with the error dropped: the loop goes on to the next key.
ExtendFailDropped(r, k) ==
    [r EXCEPT !.pc = "ext_iter", !.rem = @ \ {k}, !.tried = Append(@, k)]

\* mapper.go:258-261: the prepare of key k failed: the error is wrapped
\* and the loop is left.
ExtendFail(r, k) ==
    [r EXCEPT !.pc = "ret", !.err = ErrPrepare(k), !.tried = Append(@, k)]

\* mapper.go:258-262: PrepareContext; on failure break (unlock, return), on
\* success m.entries[k] = s and the loop goes on.
ExtendPrepare(t) ==
    /\ thr[t].pc = "ext_prep"
    /\ writer = t
    /\ LET k == thr[t].k IN
       IF PrepareOK(thr[t].data[k], thr[t].cancelled)
       THEN /\ nStmts' = nStmts + 1
            /\ stmts' = [stmts EXCEPT ![nStmts + 1] =
                            [name |-> k, open |-> TRUE, closes |-> 0]]
            /\ maps' = [maps EXCEPT ![entries][k] = nStmts + 1]
            /\ Set(t, [thr[t] EXCEPT !.pc = "ext_iter", !.s = nStmts + 1,
                                     !.rem = @ \ {k}, !.added = @ \cup {k},
                                     !.tried = Append(@, k)])
            /\ UNCHANGED writer
       ELSE /\ Set(t, ExtendFail(thr[t], k))
            /\ writer' = IF ExtendFail(thr[t], k).pc = "ret" THEN 0 ELSE t
            /\ UNCHANGED <<nStmts, stmts, maps>>
    /\ UNCHANGED <<Database, dbClosed, entries, readers, calls>>

\* ----------------------------------------------------------------- Remove
\* sql.Stmt.Close on handle h with the given outcome: a handle that is
\* already closed reports no error.
StmtClose(h, good) ==
    [stmts EXCEPT ![h] = [@ EXCEPT !.closes = @ + 1,
                                   !.open = IF good THEN FALSE ELSE @]]

\* The outcomes sql.Stmt.Close can have on handle h.
CloseOutcomes(h) == IF stmts[h].open THEN {TRUE, FALSE} ELSE {TRUE}

\* mapper.go:86-89: the unlocked test m.entries == nil.
RemoveStart(t, n) ==
    /\ Begin(t, [IdleRec EXCEPT !.op = "Remove", !.name = n,
                                !.pc = IF entries = NilMap THEN "ret" ELSE "rem_look",
                                !.rbool = FALSE])
    /\ UNCHANGED shared

\* mapper.go:90-93: the unlocked lookup s, ok := m.entries[name].
RemoveLookup(t) ==
    /\ thr[t].pc = "rem_look"
    /\ LET v == Lookup(thr[t].name) IN
       Set(t, IF v = Absent
              THEN [thr[t] EXCEPT !.pc = "ret", !.rbool = FALSE, !.ok = FALSE]
              ELSE [thr[t] EXCEPT !.pc = "rem_close", !.s = v, !.ok = TRUE])
    /\ UNCHANGED <<shared, calls>>

\* mapper.go:94-95: Lock, then s.Close() with its error dropped.  A nil s
\* is a nil-pointer dereference: the goroutine panics holding the lock.
RemoveClose(t) ==
    /\ thr[t].pc = "rem_close"
    /\ CanLock
    /\ writer' = t
    /\ IF thr[t].s = NilStmt
       THEN /\ Set(t, [thr[t] EXCEPT !.pc = "panic"])
            /\ UNCHANGED stmts
       ELSE /\ \E good \in CloseOutcomes(thr[t].s) : stmts' = StmtClose(thr[t].s, good)
            /\ Set(t, [thr[t] EXCEPT !.pc = "rem_del"])
    /\ UNCHANGED <<Database, dbClosed, entries, maps, nStmts, readers, calls>>

\* mapper.go:96-98: delete(m.entries, name), Unlock, return true.
RemoveDelete(t) ==
    /\ thr[t].pc = "rem_del"
    /\ writer = t
    /\ maps' = [maps EXCEPT ![entries][thr[t].name] = Absent]
    /\ writer' = 0
    /\ Set(t, [thr[t] EXCEPT !.pc = "ret", !.rbool = TRUE])
    /\ UNCHANGED <<Database, dbClosed, entries, stmts, nStmts, readers, calls>>

\* ------------------------------------------------------ Len, Contains, Get
\* mapper.go:44-49: Len reads the map's size without the lock.
LenCall(t) ==
    /\ Begin(t, [IdleRec EXCEPT !.op = "Len", !.pc = "ret", !.rnum = MapLen])
    /\ UNCHANGED shared

\* mapper.go:102-105 and 129-132: the unlocked test len(m.entries) == 0.
ContainsStart(t, n) ==
    /\ Begin(t, [IdleRec EXCEPT !.op = "Contains", !.name = n,
                                !.pc = IF LenEntries = 0 THEN "ret" ELSE "rlock"])
    /\ UNCHANGED shared

GetStart(t, n) ==
    /\ Begin(t, [IdleRec EXCEPT !.op = "Get", !.name = n,
                                !.pc = IF LenEntries = 0 THEN "ret" ELSE "rlock"])
    /\ UNCHANGED shared

\* m.lock.RLock() of mapper.go:106, 133, 278, 296 and 315.
RLock(t) ==
    /\ thr[t].pc = "rlock"
    /\ CanRLock
    /\ readers' = readers \cup {t}
    /\ Set(t, [thr[t] EXCEPT !.pc = "look"])
    /\ UNCHANGED <<Database, dbClosed, entries, maps, stmts, nStmts, writer, calls>>

\* mapper.go:107-109: the lookup, RUnlock, return ok && s != nil.
ContainsLookup(t) ==
    /\ thr[t].pc = "look"
    /\ thr[t].op = "Contains"
    /\ t \in readers
    /\ readers' = readers \ {t}
    /\ LET v == Lookup(thr[t].name) IN
       Set(t, [thr[t] EXCEPT !.pc = "ret", !.s = IF v = Absent THEN NilStmt ELSE v,
                             !.ok = (v # Absent),
                             !.rbool = (v # Absent /\ v # NilStmt)])
    /\ UNCHANGED <<Database, dbClosed, entries, maps, stmts, nStmts, writer, calls>>

\* mapper.go:134-136: the lookup, RUnlock, return s, ok.
GetLookup(t) ==
    /\ thr[t].pc = "look"
    /\ thr[t].op = "Get"
    /\ t \in readers
    /\ readers' = readers \ {t}
    /\ LET v == Lookup(thr[t].name) IN
       Set(t, [thr[t] EXCEPT !.pc = "ret", !.s = IF v = Absent THEN NilStmt ELSE v,
                             !.ok = (v # Absent),
                             !.rnum = IF v = Absent THEN NilStmt ELSE v,
                             !.rbool = (v # Absent)])
    /\ UNCHANGED <<Database, dbClosed, entries, maps, stmts, nStmts, writer, calls>>

\* ------------------------------- ExecContext, QueryContext, QueryRowContext
ExecOps == {"Exec", "Query", "QueryRow"}

\* What the three methods return for a statement that was not found:
\* Exec and Query the "does not exist" error, QueryRow (nil, false).
NotFoundRet(r) ==
    IF r.op = "QueryRow"
    THEN [r EXCEPT !.pc = "ret", !.rbool = FALSE, !.rnum = NilStmt]
    ELSE [r EXCEPT !.pc = "ret", !.err = ErrNotFound(r.name)]

\* mapper.go:271-277, 289-295, 308-314: the nil-connection check, then the
\* unlocked test len(m.entries) == 0.
ExecPre(r) ==
    IF ~Database
    THEN IF r.op = "QueryRow" THEN [r EXCEPT !.pc = "ret", !.rbool = FALSE]
         ELSE [r EXCEPT !.pc = "ret", !.err = ErrInvalidDB]
    ELSE IF LenEntries = 0 THEN NotFoundRet(r)
    ELSE [r EXCEPT !.pc = "rlock"]

ExecStart(t, n) ==
    /\ Begin(t, ExecPre([IdleRec EXCEPT !.op = "Exec", !.name = n]))
    /\ UNCHANGED shared

QueryStart(t, n) ==
    /\ Begin(t, ExecPre([IdleRec EXCEPT !.op = "Query", !.name = n]))
    /\ UNCHANGED shared

QueryRowStart(t, n) ==
    /\ Begin(t, ExecPre([IdleRec EXCEPT !.op = "QueryRow", !.name = n]))
    /\ UNCHANGED shared

\* Missing with the nil test left out ("!ok" alone).
MissingNoNilTest(v) == v = Absent

\* The test of mapper.go:280, 298 and 317 on the looked-up value v.
Missing(v) == v = Absent \/ v = NilStmt

\* ExecLookup with the RUnlock left out when the handle was found: the
\* shared lock is kept during the call on the handle.
ExecLookupKeepsLock(t) ==
    /\ thr[t].pc = "look"
    /\ thr[t].op \in ExecOps
    /\ t \in readers
    /\ LET v == Lookup(thr[t].name) IN
       /\ readers' = IF Missing(v) THEN readers \ {t} ELSE readers
       /\ Set(t, IF Missing(v)
                 THEN NotFoundRet([thr[t] EXCEPT !.ok = (v # Absent)])
                 ELSE [thr[t] EXCEPT !.pc = "call", !.s = v, !.ok = TRUE])
    /\ UNCHANGED <<Database, dbClosed, entries, maps, stmts, nStmts, writer, calls>>

\* mapper.go:279-282, 297-300, 316-319: the lookup, RUnlock, and the return
\* when the name is absent or maps to nil.
ExecLookup(t) ==
    /\ thr[t].pc = "look"
    /\ thr[t].op \in ExecOps
    /\ t \in readers
    /\ readers' = readers \ {t}
    /\ LET v == Lookup(thr[t].name) IN
       Set(t, IF Missing(v)
              THEN NotFoundRet([thr[t] EXCEPT !.ok = (v # Absent)])
              ELSE [thr[t] EXCEPT !.pc = "call", !.s = v, !.ok = TRUE])
    /\ UNCHANGED <<Database, dbClosed, entries, maps, stmts, nStmts, writer, calls>>

\* mapper.go:283, 301, 320: the call on the handle, made without the lock;
\* its result is returned as it is.  A nil handle is a nil-pointer
\* dereference.
ExecCall(t) ==
    /\ thr[t].pc = "call"
    /\ LET h == thr[t].s IN
       Set(t, IF h = NilStmt THEN [thr[t] EXCEPT !.pc = "panic"]
              ELSE [thr[t] EXCEPT !.pc = "ret", !.invoked = h, !.rnum = h,
                       !.rbool = (thr[t].op = "QueryRow"),
                       !.err = IF thr[t].op = "QueryRow" \/ (stmts[h].open /\ ~dbClosed)
                               THEN NoErr ELSE ErrStmt])
    /\ UNCHANGED <<shared, calls>>

\* ----------------------------------------------------------- BatchContext
\* mapper.go:178-184: the empty-list and nil-connection checks.
BatchStart(t, qs) ==
    /\ Begin(t, [IdleRec EXCEPT !.op = "Batch", !.queries = qs,
                                !.pc = IF Len(qs) = 0 \/ ~Database THEN "ret"
                                       ELSE "bat_lock",
                                !.err = IF Len(qs) # 0 /\ ~Database
                                        THEN ErrInvalidDB ELSE NoErr])
    /\ UNCHANGED shared

\* mapper.go:186: Lock.
BatchLock(t) ==
    /\ thr[t].pc = "bat_lock"
    /\ CanLock
    /\ writer' = t
    /\ Set(t, [thr[t] EXCEPT !.pc = "bat_iter", !.i = 0])
    /\ UNCHANGED <<Database, dbClosed, entries, maps, stmts, nStmts, readers, calls>>

\* BatchStep with the error of a failed statement dropped: the loop goes on.
BatchStepNoStop(r) ==
    IF r.i = Len(r.queries) THEN [r EXCEPT !.pc = "ret"]
    ELSE IF r.cancelled THEN [r EXCEPT !.pc = "ret", !.err = ErrCanceled]
    ELSE IF r.err # NoErr THEN [r EXCEPT !.pc = "ret"]
    ELSE [r EXCEPT !.i = @ + 1, !.execd = Append(@, r.i)]

\* One turn of the loop of mapper.go:187-200 at index i (0-based), or the
\* end of the range: what the thread's record becomes.
BatchStep(r) ==
    IF r.i = Len(r.queries) THEN [r EXCEPT !.pc = "ret"]
    ELSE IF r.cancelled THEN [r EXCEPT !.pc = "ret", !.err = ErrCanceled]
    ELSE IF r.err # NoErr THEN [r EXCEPT !.pc = "ret"]
    ELSE IF ExecOK(r.queries[r.i + 1], r.cancelled)
    THEN [r EXCEPT !.i = @ + 1, !.execd = Append(@, r.i)]
    ELSE [r EXCEPT !.pc = "ret", !.err = ErrBatch(r.queries[r.i + 1]),
                   !.execd = Append(@, r.i)]

\* mapper.go:187-202: the loop; leaving it unlocks and returns err.
BatchIter(t) ==
    /\ thr[t].pc = "bat_iter"
    /\ writer = t
    /\ Set(t, BatchStep(thr[t]))
    /\ writer' = IF BatchStep(thr[t]).pc = "ret" THEN 0 ELSE t
    /\ UNCHANGED <<Database, dbClosed, entries, maps, stmts, nStmts, readers, calls>>

\* ------------------------------------------------------------------ Close
CloseStart(t) ==
    /\ Begin(t, [IdleRec EXCEPT !.op = "Close", !.pc = "cls_lock"])
    /\ UNCHANGED shared

\* mapper.go:56-58: Lock, the test m.entries != nil, and the start of the
\* range over the map m.entries points to.
CloseLock(t) ==
    /\ thr[t].pc = "cls_lock"
    /\ CanLock
    /\ writer' = t
    /\ Set(t, [thr[t] EXCEPT !.pc = "cls_iter", !.rng = entries,
                  !.rem = IF entries = NilMap THEN {}
                          ELSE {n \in Names : maps[entries][n] # Absent}])
    /\ UNCHANGED <<Database, dbClosed, entries, maps, stmts, nStmts, readers, calls>>

\* The keys of the ranged-over map still to visit whose value is not nil
\* (mapper.go:59-61 skips the others).
CloseLive(r) == {n \in r.rem : maps[r.rng][n] # NilStmt /\ maps[r.rng][n] # Absent}

\* CloseFail with the error dropped: the loop goes on to the next key.
CloseFailDropped(r, k) == [r EXCEPT !.rem = @ \ {k}, !.tried = Append(@, k)]

\* CloseMark left out: the closed handle stays in the map.
CloseMarkForgotten(k) == maps

\* mapper.go:62-65: v.Close() failed on key k: the error is wrapped with
\* the name and the loop is left.
CloseFail(r, k) ==
    [r EXCEPT !.pc = "ret", !.err = ErrClose(k), !.k = k, !.tried = Append(@, k)]

\* mapper.go:66: m.entries[k] = nil after a successful v.Close().
CloseMark(k) == [maps EXCEPT ![entries][k] = NilStmt]

\* mapper.go:58-69: one turn of the loop on any key not yet visited.  A
\* failed v.Close() breaks: Unlock and return the wrapped error.  After a
\* successful one m.entries[k] = nil.  The end of the range unlocks.
CloseIter(t) ==
    /\ thr[t].pc = "cls_iter"
    /\ writer = t
    /\ IF CloseLive(thr[t]) = {}
       THEN /\ writer' = 0
            /\ Set(t, IF thr[t].err # NoErr THEN [thr[t] EXCEPT !.pc = "ret"]
                      ELSE [thr[t] EXCEPT !.pc = "cls_db", !.rem = {}])
            /\ UNCHANGED <<stmts, maps>>
       ELSE \E k \in CloseLive(thr[t]), good \in BOOLEAN :
              LET h == maps[thr[t].rng][k] IN
              /\ good \in CloseOutcomes(h)
              /\ stmts' = StmtClose(h, good)
              /\ IF good
                 THEN /\ maps' = CloseMark(k)
                      /\ writer' = t
                      /\ Set(t, [thr[t] EXCEPT !.rem = @ \ {k}, !.tried = Append(@, k)])
                 ELSE /\ UNCHANGED maps
                      /\ writer' = IF CloseFail(thr[t], k).pc = "ret" THEN 0 ELSE t
                      /\ Set(t, CloseFail(thr[t], k))
    /\ UNCHANGED <<Database, dbClosed, entries, nStmts, readers, calls>>

\* mapper.go:72: return m.Database.Close(), after the Unlock.  A nil
\* Database is a nil-pointer dereference.  Closing a closed sql.DB reports
\* no error.
CloseDB(t) ==
    /\ thr[t].pc = "cls_db"
    /\ IF ~Database
       THEN /\ Set(t, [thr[t] EXCEPT !.pc = "panic"])
            /\ UNCHANGED dbClosed
       ELSE /\ dbClosed' = TRUE
            /\ \E e \in (IF dbClosed THEN {NoErr} ELSE {NoErr, ErrDBClose}) :
                 Set(t, [thr[t] EXCEPT !.pc = "ret", !.err = e, !.rbool = TRUE])
    /\ UNCHANGED <<Database, entries, maps, stmts, nStmts, writer, readers, calls>>

\* ------------------------------------------------------------ cancellation
\* The caller's context.Context is cancelled while the call is running.
\* The call sees it at its next read of the context (mapper.go:164, 189,
\* 196, 247, 258), so the cancellation is placed right before such a read.
Cancel(t) ==
    /\ thr[t].pc \in {"add_prep", "ext_iter", "ext_prep", "bat_iter"}
    /\ ~thr[t].cancelled
    /\ Set(t, [thr[t] EXCEPT !.cancelled = TRUE])
    /\ UNCHANGED <<shared, calls>>

Next ==
    \/ \E t \in Threads, n \in AddNames, q \in AddQueries : AddStart(t, n, q)
    \/ \E t \in Threads : MakeEntries(t)
    \/ \E t \in Threads : AddCheck(t)
    \/ \E t \in Threads : AddPrepare(t)
    \/ \E t \in Threads, d \in ExtendInputs : ExtendStart(t, d)
    \/ \E t \in Threads : ExtendLock(t)
    \/ \E t \in Threads : ExtendIter(t)
    \/ \E t \in Threads : ExtendPrepare(t)
    \/ \E t \in Threads, n \in ReadNames : RemoveStart(t, n)
    \/ \E t \in Threads : RemoveLookup(t)
    \/ \E t \in Threads : RemoveClose(t)
    \/ \E t \in Threads : RemoveDelete(t)
    \/ \E t \in Threads : LenCall(t)
    \/ \E t \in Threads, n \in ReadNames : ContainsStart(t, n)
    \/ \E t \in Threads, n \in ReadNames : GetStart(t, n)
    \/ \E t \in Threads : RLock(t)
    \/ \E t \in Threads : ContainsLookup(t)
    \/ \E t \in Threads : GetLookup(t)
    \/ \E t \in Threads, n \in ReadNames : ExecStart(t, n)
    \/ \E t \in Threads, n \in ReadNames : QueryStart(t, n)
    \/ \E t \in Threads, n \in ReadNames : QueryRowStart(t, n)
    \/ \E t \in Threads : ExecLookup(t)
    \/ \E t \in Threads : ExecCall(t)
    \/ \E t \in Threads, qs \in BatchInputs : BatchStart(t, qs)
    \/ \E t \in Threads : BatchLock(t)
    \/ \E t \in Threads : BatchIter(t)
    \/ \E t \in Threads : CloseStart(t)
    \/ \E t \in Threads : CloseLock(t)
    \/ \E t \in Threads : CloseIter(t)
    \/ \E t \in Threads : CloseDB(t)
    \/ \E t \in Threads : Cancel(t)

Spec == Init /\ [][Next]_vars

\* ======================================================================
\* Definitions used by the properties
\* ======================================================================
IsStmt(v) == v # Absent /\ v # NilStmt

\* The step is one of thread t's call (or the cancellation of its context).
StepOf(t) == thr[t].pc # "idle" /\ NotAlone(thr'[t]) # NotAlone(thr[t])

\* Thread t's call returns in this step.
Returns(t) == thr[t].pc # "idle" /\ thr'[t].pc = "idle"
\* The step is the cancellation of thread t's context.
Cancels(t) == ~thr[t].cancelled /\ thr'[t].cancelled

\* ----------------------------------------------------------------------
\* C1: concurrent Add calls with the same name (also on a new Map whose
\* mapping is not initialized yet): exactly one succeeds, and at no point
\* have two handles been prepared and installed under that name.  A handle
\* is installed in the step that prepares it, so two handles of one name on
\* which Close was never called are two successful installs of that name
\* with no Remove or Close of it in between.
C1_OneHandlePerName ==
    \A n \in Names :
        Cardinality({h \in 1..nStmts : stmts[h].name = n /\ stmts[h].closes = 0}) <= 1

\* ----------------------------------------------------------------------
\* C2: with an open connection and no other call in progress, Add(n, q) of
\* a name for which Contains(n) is false and whose prepare succeeds
\* returns no error; afterwards Contains(n) is true and Len() is one more
\* than before the call.
C2_AddRegisters ==
    [][\A t \in Threads :
         ( /\ thr[t].op = "Add" /\ thr[t].pc = "add_prep" /\ thr[t].solo
           /\ ~Registered(thr[t].val0)
           /\ Database /\ ~dbClosed
           /\ PrepareOK(thr[t].query, thr[t].cancelled)
           /\ Returns(t) )
         => /\ last'.err = NoErr
            /\ \E n \in Names : n = thr[t].name /\ Contains(n)'
            /\ MapLen' = thr[t].len0 + 1]_vars

\* ----------------------------------------------------------------------
\* C3: Add or Extend of a name that maps to a non-nil handle fails with
\* DuplicateName, prepares nothing and leaves the mapping as it is; no
\* step of any call replaces a non-nil handle stored in a map by another
\* handle.
C3_DuplicateStep(t) ==
    /\ ( /\ thr[t].pc = "add_lock" /\ StepOf(t)
         /\ Registered(Lookup(thr[t].name)) )
       => /\ Returns(t)
          /\ last'.err = ErrDuplicate(thr[t].name)
          /\ UNCHANGED <<entries, maps, stmts, nStmts>>
    /\ ( thr[t].pc = "ext_iter" /\ StepOf(t) )
       => /\ UNCHANGED <<entries, maps, stmts, nStmts>>
          /\ thr'[t].pc = "ext_prep"
             => \E k \in thr[t].rem : k = thr'[t].k /\ ~Registered(Lookup(k))
          /\ ( /\ thr[t].rem # {} /\ ~thr[t].cancelled /\ ~Cancels(t)
               /\ \A k \in thr[t].rem : Registered(Lookup(k)) )
             => /\ Returns(t)
                /\ \E k \in thr[t].rem : last'.err = ErrDuplicate(k)

\* C3: an Add or Extend step that finds a non-nil handle under the name
\* returns DuplicateName without preparing, and no stored handle is ever
\* replaced by another handle.
C3_NoOverwrite ==
    [][ /\ \A t \in Threads : C3_DuplicateStep(t)
        /\ \A m \in MapIds, n \in Names :
             IsStmt(maps[m][n]) => maps'[m][n] \in {maps[m][n], Absent, NilStmt} ]_vars

C3_Witness ==
    /\ last.op = "Add"
    /\ last.err = ErrDuplicate("a")
    /\ IsStmt(Lookup("a"))
    /\ stmts[Lookup("a")].open

\* ----------------------------------------------------------------------
\* C4: with no other call in progress, Remove(n) of a name absent from the
\* mapping returns false and leaves Len() and the mapping as they are;
\* Remove(n) of a present name returns true, having called Close on the
\* handle before the delete (also when that Close reports an error), and
\* afterwards Contains(n) is false and Len() is one less.
C4_Remove ==
    [][\A t \in Threads :
         ( thr[t].op = "Remove" /\ thr[t].solo /\ StepOf(t) )
         => /\ thr'[t].pc # "panic"
            /\ Returns(t)
               => IF thr[t].val0 = Absent
                  THEN /\ last'.rbool = FALSE
                       /\ MapLen' = thr[t].len0
                       /\ UNCHANGED <<entries, maps>>
                  ELSE /\ last'.rbool = TRUE
                       /\ IsStmt(thr[t].s) /\ stmts[thr[t].s].closes >= 1
                       /\ \E n \in Names : n = thr[t].name /\ ~Contains(n)'
                       /\ MapLen' = thr[t].len0 - 1 ]_vars

\* ----------------------------------------------------------------------
\* C5: Exec and Query return InvalidConnection when no connection is set,
\* before any lookup, and NotFound without calling any handle when the
\* name is absent or maps to nil; QueryRow returns (nil, false) and no
\* error in those cases, and a QueryRow that returns found = true got its
\* row from a non-nil handle stored under that name.
C5_Results ==
    /\ \A t \in Threads : thr[t].op \in ExecOps => Database /\ thr[t].pc # "panic"
    /\ last.op \in {"Exec", "Query"} /\ ~Database => last.err = ErrInvalidDB
    /\ last.op \in ExecOps /\ last.err \in {ErrInvalidDB, ErrNotFound(last.name)}
       => last.rnum = NilStmt
    /\ last.op = "QueryRow"
       => /\ last.err = NoErr
          /\ ~Database => ~last.rbool
          /\ ~last.rbool => last.rnum = NilStmt
          /\ last.rbool => IsStmt(last.rnum) /\ stmts[last.rnum].name = last.name

C5_LookupStep(t) ==
    ( thr[t].op \in ExecOps /\ thr[t].pc = "look" /\ StepOf(t) )
    => IF ~IsStmt(Lookup(thr[t].name))
       THEN /\ Returns(t)
            /\ last'.rnum = NilStmt
            /\ IF thr[t].op = "QueryRow"
               THEN last'.err = NoErr /\ ~last'.rbool
               ELSE last'.err = ErrNotFound(thr[t].name)
       ELSE thr'[t].pc = "call" /\ thr'[t].s = Lookup(thr[t].name)

\* C5: the results above hold of every returned call and the lookup step
\* behaves as stated.
C5_ExecErrors == []C5_Results /\ [][\A t \in Threads : C5_LookupStep(t)]_vars

C5_Witness ==
    /\ last.op = "Exec"
    /\ last.err = ErrNotFound("a")
    /\ Lookup("a") = NilStmt
    /\ Database

\* ----------------------------------------------------------------------
\* C6: Extend stops at the first failure and undoes nothing.  The step in
\* which a pair fails returns that error and changes neither the mapping
\* nor any handle; the pairs prepared earlier in the call stay registered
\* (with no other call in progress they are all in the mapping, open, when
\* the call returns); nothing is prepared or inserted afterwards; and a
\* pair is inserted only by a step whose prepare succeeded.
C6_ExtendStep(t) ==
    ( thr[t].op = "Extend" /\ StepOf(t) )
    => /\ ( Returns(t) /\ last'.err # NoErr )
          => /\ UNCHANGED <<entries, maps, stmts, nStmts>>
             /\ last'.added = thr[t].added
             /\ thr[t].solo
                => \A k \in thr[t].added :
                      /\ IsStmt(Lookup(k))
                      /\ stmts[Lookup(k)].open
                      /\ stmts[Lookup(k)].name = k
       /\ ( maps' # maps \/ nStmts' # nStmts \/ stmts' # stmts )
          => /\ thr[t].pc = "ext_prep"
             /\ thr[t].err = NoErr
             /\ thr[t].data[thr[t].k] \in ValidSQL
             /\ nStmts' = nStmts + 1
             /\ maps' = [maps EXCEPT ![entries][thr[t].k] = nStmts + 1]
             /\ stmts'[nStmts + 1].open
             /\ thr'[t].added = thr[t].added \cup {thr[t].k}
       /\ ( /\ thr[t].pc = "ext_prep" /\ ~Cancels(t)
            /\ thr[t].data[thr[t].k] \notin ValidSQL )
          => /\ Returns(t)
             /\ last'.err = ErrPrepare(thr[t].k)
       /\ ( thr[t].pc = "ext_iter" /\ thr'[t].pc = "ext_prep" ) => thr[t].err = NoErr

\* C6: every step of every Extend call stops at the first failure and
\* leaves the earlier insertions in place.
C6_ExtendPartial == [][\A t \in Threads : C6_ExtendStep(t)]_vars

C6_Witness ==
    /\ last.op = "Extend"
    /\ last.err = ErrPrepare("b")
    /\ last.added = {"a"}
    /\ Contains("a")
    /\ Lookup("c") = Absent

\* ----------------------------------------------------------------------
\* C7: Extend({"a": validSQL, "b": invalidSQL, "c": validSQL}) on a
\* registry with none of these names, run alone with an open connection
\* and a context that is not cancelled.
C7_Case(t) ==
    /\ thr[t].op = "Extend" /\ thr[t].data = DataABC
    /\ thr[t].solo /\ thr[t].len0 = 0
    /\ ~dbClosed /\ ~thr[t].cancelled
    /\ Returns(t)

\* C7 as claimed: the call always ends with "a" registered, returns
\* PrepareFailed for "b", never attempts "c", and Len() grows by one.
C7_SameOutcome ==
    [][\A t \in Threads :
         C7_Case(t)
         => /\ last'.err = ErrPrepare("b")
            /\ last'.tried = <<"a", "b">>
            /\ Contains("a")'
            /\ MapLen' = thr[t].len0 + 1]_vars

\* C7 as amended: the call returns PrepareFailed for "b"; the pairs it
\* visited before "b" -- none, "a", "c" or both, as Go's map iteration
\* order decides -- are registered and no other is; nothing is attempted
\* after "b"; Len() grows by the number of pairs visited before "b".
C7_AnyOrder ==
    [][\A t \in Threads :
         C7_Case(t)
         => /\ last'.err = ErrPrepare("b")
            /\ last'.added \subseteq {"a", "c"}
            /\ Len(last'.tried) = Cardinality(last'.added) + 1
            /\ last'.tried[Len(last'.tried)] = "b"
            /\ \A i \in 1..(Len(last'.tried) - 1) : last'.tried[i] \in last'.added
            /\ \A n \in Names : Contains(n)' <=> n \in last'.added
            /\ MapLen' = thr[t].len0 + Cardinality(last'.added)]_vars

C7_Witness ==
    /\ calls = 1
    /\ last.op = "Extend"
    /\ last.err = ErrPrepare("b")
    /\ last.tried = <<"c", "b">>
    /\ Contains("c")
    /\ ~Contains("a")
    /\ MapLen = 1

\* ----------------------------------------------------------------------
\* C8: Batch runs its statements in list order and stops at the first
\* failure: when statement i fails exactly statements 0..i were attempted,
\* 0..i-1 succeeded, and the error names statement i; when none fails and
\* the context is not cancelled all are run once each, in order, and nil
\* is returned.  Batch never changes the name mapping.
Indices(n) == [i \in 1..n |-> i - 1]

C8_Results ==
    last.op = "Batch"
    => LET n == Len(last.execd)
           q == last.queries
       IN  /\ n <= Len(q)
           /\ last.execd = Indices(n)
           /\ last.err \in {NoErr, ErrCanceled, ErrInvalidDB} \cup {ErrBatch(q[i]) : i \in 1..Len(q)}
           /\ last.err = ErrInvalidDB => n = 0 /\ ~Database
           /\ last.err \notin {NoErr, ErrCanceled, ErrInvalidDB}
              => /\ n >= 1
                 /\ last.err = ErrBatch(q[n])
                 /\ \A j \in 1..(n - 1) : q[j] \in ValidSQL
           /\ last.err = NoErr
              => /\ \A j \in 1..n : q[j] \in ValidSQL
                 /\ Database => n = Len(q)

C8_BatchStep(t) ==
    ( thr[t].op = "Batch" /\ StepOf(t) )
    => /\ UNCHANGED <<entries, maps, stmts, nStmts>>
       /\ ( /\ thr[t].pc = "bat_iter" /\ thr[t].i < Len(thr[t].queries)
            /\ ~thr[t].cancelled /\ ~Cancels(t)
            /\ ~ExecOK(thr[t].queries[thr[t].i + 1], FALSE) )
          => /\ Returns(t)
             /\ last'.err = ErrBatch(thr[t].queries[thr[t].i + 1])
             /\ last'.execd = Append(thr[t].execd, thr[t].i)

\* C8: every returned Batch ran a prefix of its list in order, and every
\* step of Batch stops at the first failure and leaves the mapping alone.
C8_BatchInOrder == []C8_Results /\ [][\A t \in Threads : C8_BatchStep(t)]_vars

C8_Witness ==
    /\ last.op = "Batch"
    /\ last.queries = <<"ok1", "bad", "ok2">>
    /\ last.err = ErrBatch("bad")
    /\ last.execd = <<0, 1>>

\* ----------------------------------------------------------------------
\* C9: a Close call in which a handle's Close fails stops there: it
\* returns CloseFailed naming that entry, closes no further handle and
\* does not close the connection.  A Close call goes on to close the
\* connection only when every handle it found has closed and the mapping
\* holds no handle, and it returns the result of closing the connection.
C9_CloseStep(t) ==
    ( thr[t].op = "Close" /\ StepOf(t) )
    => /\ \A h \in Stmts :
            ( stmts'[h].closes > stmts[h].closes /\ stmts'[h].open )
            => /\ Returns(t)
               /\ \E k \in Names : maps[thr[t].rng][k] = h /\ last'.err = ErrClose(k)
               /\ dbClosed' = dbClosed
               /\ \A g \in Stmts \ {h} : stmts'[g] = stmts[g]
       /\ ( thr[t].pc # "cls_db" /\ thr'[t].pc = "cls_db" )
          => /\ thr[t].err = NoErr
             /\ thr[t].rng # NilMap
                => \A n \in Names : IsStmt(maps[thr[t].rng][n])
                                     => ~stmts[maps[thr[t].rng][n]].open
             /\ \A n \in Names : ~IsStmt(Lookup(n))
       /\ thr[t].pc = "cls_db"
          => /\ Database => dbClosed' /\ Returns(t) /\ last'.rbool
             /\ Returns(t) => last'.err \in {NoErr, ErrDBClose}

\* C9: every step of every Close call stops at a failed handle, and only
\* the last step of a Close call with no failure closes the connection.
C9_CloseStops ==
    [][ /\ \A t \in Threads : C9_CloseStep(t)
        /\ dbClosed' # dbClosed
           => \E t \in Threads : thr[t].op = "Close" /\ thr[t].pc = "cls_db" /\ StepOf(t)
      ]_vars

C9_Witness ==
    /\ last.op = "Close"
    /\ last.err = ErrClose("a")
    /\ ~dbClosed
    /\ stmts[1].open /\ stmts[1].closes = 1
    /\ Lookup("a") = 1
    /\ Lookup("c") = 2
    /\ stmts[2].open /\ stmts[2].closes = 0

\* ----------------------------------------------------------------------
\* C10: Close can be retried.  A Close call never closes a handle that is
\* already closed; a handle whose Close failed stays in the mapping, so the
\* next Close call that gets to it attempts it again; without a step of
\* Add or Extend the set of names holding an open handle never grows; and
\* a Close call whose remaining handles all close goes on to close the
\* connection.
OpenNames == {n \in Names : IsStmt(Lookup(n)) /\ stmts[Lookup(n)].open}

C10_CloseStep(t) ==
    ( thr[t].op = "Close" /\ StepOf(t) )
    => /\ \A h \in Stmts :
            stmts'[h] # stmts[h]
            => /\ stmts[h].open
               /\ \E k \in Names : maps[thr[t].rng][k] = h
               /\ stmts'[h].open => \E k \in Names : maps'[thr[t].rng][k] = h
       /\ ( /\ thr[t].pc = "cls_iter"
            /\ \A n \in thr[t].rem : ~IsStmt(maps[thr[t].rng][n]) )
          => thr'[t].pc = "cls_db"
       /\ ( thr[t].pc = "cls_db" /\ Database ) => dbClosed'

\* C10: every Close step skips what is closed and retries what failed, and
\* only Add and Extend make a name hold an open handle.
C10_CloseRetry ==
    [][ /\ \A t \in Threads : C10_CloseStep(t)
        /\ ( \A t \in Threads : thr[t].op \in {"Add", "Extend"} => ~StepOf(t) )
           => OpenNames' \subseteq OpenNames
      ]_vars

C10_Witness ==
    /\ last.op = "Close"
    /\ last.rbool
    /\ dbClosed
    /\ Lookup("a") = NilStmt
    /\ Lookup("c") = NilStmt
    /\ stmts[1].closes = 2 /\ ~stmts[1].open
    /\ stmts[2].closes = 1 /\ ~stmts[2].open

\* ----------------------------------------------------------------------
\* C11: whenever no Close or Remove call is in progress, no name in the
\* mapping maps to a nil handle -- so Get never returns (nil, true) -- and
\* Len() is the number of names for which Contains is true.
C11_NoNilEntries ==
    ( \A t \in Threads : thr[t].op \notin {"Close", "Remove"} )
    => /\ \A n \in Names : Lookup(n) # NilStmt
       /\ MapLen = Cardinality({n \in Names : Contains(n)})
       /\ last.op = "Get" /\ last.rbool => last.rnum # NilStmt

\* ----------------------------------------------------------------------
\* C12: no call reaches a nil-pointer dereference: a call on a Map without
\* a connection reports an error, and no call made after a Close calls a
\* method on a nil handle.
C12_NoPanic == \A t \in Threads : thr[t].pc # "panic"

\* ----------------------------------------------------------------------
\* C13: when a Close call has returned without error, the connection is
\* closed, the mapping holds no handle that is still open, and Contains is
\* false for every name.
C13_ClosedStaysClosed ==
    ( last.op = "Close" /\ last.err = NoErr )
    => /\ dbClosed
       /\ \A n \in Names : ~Contains(n)
       /\ \A n \in Names : IsStmt(Lookup(n)) => ~stmts[Lookup(n)].open

\* ----------------------------------------------------------------------
\* C14: the mapping is created, replaced and written only by a thread that
\* holds the exclusive lock, and the calls that look a name up (Remove among
\* them) do so holding the lock.
C14_LockedAccess ==
    [][\A t \in Threads :
         /\ ( StepOf(t) /\ (entries' # entries \/ maps' # maps) ) => writer = t
         /\ ( StepOf(t) /\ thr[t].pc = "rem_look" ) => (writer = t \/ t \in readers)
      ]_vars

\* ----------------------------------------------------------------------
\* Thread u issues a prepare or a raw statement in this step.
Issues(u) ==
    /\ StepOf(u) /\ ~Cancels(u)
    /\ \/ thr[u].pc \in {"add_prep", "ext_prep"}
       \/ /\ thr[u].pc = "bat_iter" /\ thr[u].i < Len(thr[u].queries)
          /\ ~thr[u].cancelled /\ thr[u].err = NoErr

\* C15: Add, Extend, Remove, Batch and Close serialize against each other;
\* in particular, while a Close call has closed handles and has not yet
\* closed the connection, no other call issues a prepare or a Batch
\* statement.
C15_Serialized ==
    [][\A t \in Threads, u \in Threads :
         ( /\ t # u
           /\ thr[t].op = "Close" /\ thr[t].pc = "cls_db" /\ Database
           /\ thr[t].tried # <<>> )
         => ~Issues(u)]_vars

\* ----------------------------------------------------------------------
\* C16: Exec, Query and QueryRow hold the shared lock for the lookup only:
\* a thread in the call on the handle holds neither lock, and the only
\* threads holding the shared lock are those at a lookup.
C16_CallUnlocked ==
    /\ \A t \in Threads : thr[t].pc = "call" => t \notin readers /\ writer # t
    /\ \A t \in readers : thr[t].pc = "look"

\* A Close call took the exclusive lock, closed the handle and returned
\* while another thread's call on that handle was still in flight.
C16_Witness ==
    \E t \in Threads :
        /\ thr[t].pc = "call" /\ thr[t].op = "Exec"
        /\ IsStmt(thr[t].s) /\ ~stmts[thr[t].s].open
        /\ last.op = "Close" /\ last.rbool /\ last.err = NoErr

\* ----------------------------------------------------------------------
\* C17: Batch and Extend test the context at the head of every turn of
\* their loop.  A turn that starts with the context cancelled issues no
\* prepare and no statement: the call returns the context's error as it is,
\* releases the lock, and leaves in place what the earlier turns did.
C17_CancelStep(t) ==
    ( /\ thr[t].op \in {"Extend", "Batch"} /\ StepOf(t) /\ thr[t].cancelled
      /\ \/ thr[t].pc = "ext_iter" /\ thr[t].rem # {}
         \/ thr[t].pc = "bat_iter" /\ thr[t].i < Len(thr[t].queries) )
    => /\ Returns(t)
       /\ last'.err = ErrCanceled
       /\ writer = t /\ writer' = 0
       /\ UNCHANGED <<entries, maps, stmts, nStmts, dbClosed>>
       /\ last'.added = thr[t].added
       /\ last'.execd = thr[t].execd
       /\ last'.tried = thr[t].tried
       /\ thr[t].solo => \A k \in thr[t].added :
                            IsStmt(Lookup(k)) /\ stmts[Lookup(k)].open

\* C17: every step of every Batch and Extend call obeys the rule above.
C17_CancelChecked == [][\A t \in Threads : C17_CancelStep(t)]_vars

C17_Witness ==
    /\ last.op = "Extend"
    /\ last.err = ErrCanceled
    /\ last.added = {"a"}
    /\ last.tried = <<"a">>
    /\ Contains("a")
    /\ stmts[Lookup("a")].open

\* ----------------------------------------------------------------------
\* C18: no successful insert is lost.  With no call in progress, handles
\* prepared under pairwise distinct names, and no Remove or Close having
\* touched a handle or an entry, every prepared handle is stored under its
\* name, Contains is true for each of those names, and Len() is their
\* number.
C18_NoInsertLost ==
    ( /\ \A t \in Threads : thr[t].pc = "idle"
      /\ \A h \in 1..nStmts : stmts[h].closes = 0
      /\ \A h \in 1..nStmts, g \in 1..nStmts : h # g => stmts[h].name # stmts[g].name
      /\ \A n \in Names : Lookup(n) # NilStmt )
    => /\ \A h \in 1..nStmts :
            /\ Lookup(stmts[h].name) = h
            /\ Contains(stmts[h].name)
       /\ MapLen = nStmts

\* ----------------------------------------------------------------------
\* C19: the registry never calls Close on a handle that has already been
\* closed, under any interleaving of Remove calls with each other or with a
\* Close call; so two Remove calls cannot both close, and both report, the
\* same registration.
C19_CloseOnce ==
    [][\A h \in Stmts : stmts'[h].closes > stmts[h].closes => stmts[h].open]_vars

\* ----------------------------------------------------------------------
\* A step of the call thread t is in (its start and the cancellation of
\* its context are not steps of the call).
CallStep(t) ==
    \/ MakeEntries(t) \/ AddCheck(t) \/ AddPrepare(t)
    \/ ExtendLock(t) \/ ExtendIter(t) \/ ExtendPrepare(t)
    \/ RemoveLookup(t) \/ RemoveClose(t) \/ RemoveDelete(t)
    \/ RLock(t) \/ ContainsLookup(t) \/ GetLookup(t)
    \/ ExecLookup(t) \/ ExecCall(t)
    \/ BatchLock(t) \/ BatchIter(t)
    \/ CloseLock(t) \/ CloseIter(t) \/ CloseDB(t)

\* C20: the registry never gets stuck and a thread that has returned holds
\* no lock: a thread that is not in a call holds neither lock, and whenever
\* calls are in progress at least one of them can take its next step (so
\* that under fair scheduling every call returns).
C20_NeverStuck ==
    /\ \A t \in Threads : thr[t].pc = "idle" => writer # t /\ t \notin readers
    /\ ( \E t \in Threads : thr[t].pc # "idle" )
       => \E t \in Threads : ENABLED CallStep(t)

====
